---- MODULE Spec2Model ----
(***************************************************************************)
(* Movie-Rating-Platform frontend: the movie catalog view in its two       *)
(* variants (A: dual DB / IMDB panels, B: DB with IMDB fallback) and the   *)
(* theme store (ThemeProvider).                                            *)
(*                                                                         *)
(* One step of the model is one run-to-completion piece of JavaScript: an  *)
(* event handler, an effect, or the continuation of an await.  React       *)
(* state setters called in one such piece are written together.  A passive *)
(* effect scheduled by a render is flushed by React before any later       *)
(* handler or continuation is processed, hence the ~effectPending guards.  *)
(***************************************************************************)
EXTENDS Integers, Sequences, FiniteSets, Bags, TLC

\* ---------------------------------------------------------------- bounds
MaxOutstanding == 2    \* awaits of one panel outstanding at a time
MaxPage == 4           \* largest page number "Next" is clicked up to
MaxCount == 21         \* largest total count the DB API reports
MaxMovieId == 1        \* distinct movies the APIs return
MaxRandomIndex == 1    \* indices Math.random() picks in getRandomQuery
MaxHandlers == 3       \* handleChange closures alive at a time

\* ------------------------------------------------------ program constants
perPage == 10

DbFailedA == "Failed to load movies from database"
ImdbFailedA == "Failed to load movies from IMDB"
FailedB == "Failed to load movies"

randomWords ==
  <<"action", "love", "war", "adventure", "comedy", "drama", "hero",
    "legend", "dark", "the">>
randomLetters ==
  <<"a", "b", "c", "d", "e", "f", "g", "h", "i", "j", "k", "l", "m", "n",
    "o", "p", "q", "r", "s", "t", "u", "v", "w", "x", "y", "z">>

\* ----------------------------------------------------------------- inputs
SearchTerms == {"", "zzzqqq"}
ResultLists == {<<>>} \cup {<<m>> : m \in 1..MaxMovieId}
\* the total counts at which Math.ceil(count / perPage) steps, and the next
Counts == {c \in 0..MaxCount : c % perPage \in {0, 1}}
\* shapes of a resolved IMDB response: data with a list, data without the
\* list field, no data at all
ImdbShapes == {"list", "nolist", "nodata"}

VARIABLES
  variant,       \* which MovieList component is mounted: "A" or "B"
  searchTerm, page, totalPages,
  effectPending, \* the useEffect([page]) of MovieList is scheduled
  trigger,       \* what scheduled that effect, while it is scheduled
  inflight,      \* bag of the awaits not yet resumed
  lastReq,       \* per API, the parameters of the last request sent
  dbMovies, imdbMovies, dbLoading, imdbLoading, dbError, imdbError,
  movies, loading, error, searchSource,
  lastResp,      \* per panel, the last response that arrived
  theme,         \* ThemeProvider state
  stored,        \* localStorage item 'theme', "null" when absent
  mounted,       \* ThemeProvider is mounted
  themeEffectPending, \* the useEffect([theme]) of ThemeProvider is scheduled
  dataTheme,     \* attribute data-theme of the document element
  osDark,        \* matchMedia('(prefers-color-scheme: dark)').matches
  listeners,     \* 'change' listeners registered on the media query
  handler,       \* the handleChange closure of the last effect run
  toggleMounted, \* ThemeToggle is mounted
  isOpen,        \* ThemeToggle state
  toggleEffectPending, \* the useEffect([]) of ThemeToggle is scheduled
  mousedownListeners   \* 'mousedown' listeners registered on the document

panelDbA == <<dbMovies, dbLoading, dbError>>
panelImdbA == <<imdbMovies, imdbLoading, imdbError>>
panelA == <<panelDbA, panelImdbA>>
panelB == <<movies, loading, error, searchSource>>
history == <<lastResp>>
providerVars == <<theme, stored, mounted, themeEffectPending, dataTheme, osDark,
                  listeners, handler>>
toggleVars == <<toggleMounted, isOpen, toggleEffectPending, mousedownListeners>>
themeVars == <<providerVars, toggleVars>>
catalogVars == <<variant, searchTerm, page, totalPages, effectPending, trigger,
                 inflight, lastReq, panelA, panelB, history>>
vars == <<catalogVars, themeVars>>

\* ---------------------------------------------------------------- helpers
\* JavaScript truthiness of a string
Truthy(s) == s # ""

\* Math.ceil(total / perPage) for total >= 0
PageCount(total) ==
  IF total % perPage = 0 THEN total \div perPage ELSE (total \div perPage) + 1

getRandomQuery(useWord, i) ==
  IF useWord THEN randomWords[i] ELSE randomLetters[i]

\* the queries fetchFromIMDB may send for a searchQuery:
\* searchQuery || getRandomQuery()
ImdbQueries(searchQuery) ==
  IF Truthy(searchQuery) THEN {searchQuery}
  ELSE {getRandomQuery(useWord, i) : useWord \in BOOLEAN, i \in 1..MaxRandomIndex}

\* the continuation of an await: the API awaited, the searchQuery its
\* closure holds, whether it has been outstanding together with another
\* await of the same panel, and the total count of the DB response its
\* closure holds (0 before there is one)
Await(api, q, c) == [api |-> api, q |-> q, c |-> c, count |-> 0]

\* params of movieService.getMovies: search is "" when the key is absent
DbParams(searchQuery, pageNum) == [page |-> pageNum, search |-> searchQuery]
NoReq == [page |-> 0, search |-> ""]

NoResp ==
  [api |-> "none", kind |-> "none", results |-> <<>>, count |-> 0, c |-> FALSE]
Resp(r, kind, results, count) ==
  [api |-> r.api, kind |-> kind, results |-> results, count |-> count, c |-> r.c]
\* a response to a panel of A: nothing reads its count or its overlap later
RespA(r, kind, results) == Resp(Await(r.api, r.q, FALSE), kind, results, 0)

Outstanding(api) == {r \in BagToSet(inflight) : r.api = api}
\* number of awaits on the given APIs in bag B
NumIn(B, apis) ==
  BagCardinality([r \in {x \in BagToSet(B) : x.api \in apis} |-> B[r]])
NumOutstanding(apis) == NumIn(inflight, apis)
Remove(r) == inflight (-) SetToBag({r})

\* the awaits sharing a panel: each API has its own in A, one panel in B
PanelApis(api) == IF variant = "A" THEN {api} ELSE {"db", "imdb"}
\* room for n more fetchMovies calls
CanFetch(n) ==
  \A api \in {"db", "imdb"} : NumOutstanding(PanelApis(api)) + n <= MaxOutstanding

\* every await of the given APIs in bag B is now known to overlap another
MarkOverlap(B, apis) ==
  LET D == {IF r.api \in apis THEN [r EXCEPT !.c = TRUE] ELSE r : r \in BagToSet(B)}
  IN [x \in D |->
        IF x.api \in apis
        THEN CopiesIn(x, B) + CopiesIn([x EXCEPT !.c = FALSE], B)
        ELSE CopiesIn(x, B)]

\* bag B with a new await on api, which shares its panel with the awaits on apis
Issue(B, api, q, apis) ==
  IF \E r \in BagToSet(B) : r.api \in apis
  THEN MarkOverlap(B, apis) (+) SetToBag({Await(api, q, TRUE)})
  ELSE B (+) SetToBag({Await(api, q, FALSE)})

\* what made React schedule useEffect([page]): the mount, a search submit or
\* a pagination click; the search text the view held then; and the number of
\* DB requests the handler has sent itself
Trigger(by, term, sent) == [by |-> by, term |-> term, sent |-> sent]
NoTrigger == Trigger("none", "", 0)

\* ------------------------------------------------------------------ Init
NoHandler == [id |-> 0, theme |-> "null"]

\* useState initialiser of ThemeProvider: savedTheme || 'dark'
InitialTheme(saved) == IF saved = "null" \/ saved = "" THEN "dark" ELSE saved

CatalogInit ==
  /\ searchTerm = "" /\ page = 1 /\ totalPages = 1
  /\ effectPending = TRUE
  /\ trigger = Trigger("mount", "", 0)
  /\ inflight = EmptyBag
  /\ lastReq = [db |-> NoReq, imdb |-> ""]
  /\ dbMovies = <<>> /\ imdbMovies = <<>>
  /\ dbLoading = TRUE /\ imdbLoading = TRUE
  /\ dbError = "" /\ imdbError = ""
  /\ movies = <<>> /\ loading = TRUE /\ error = "" /\ searchSource = "null"
  /\ lastResp = IF variant = "A" THEN [db |-> NoResp, imdb |-> NoResp]
                ELSE [view |-> NoResp]

ThemeProviderInit ==
  /\ theme = InitialTheme(stored)
  /\ mounted = TRUE /\ themeEffectPending = TRUE
  /\ dataTheme = "null"
  /\ listeners = {} /\ handler = NoHandler
  /\ toggleMounted = FALSE /\ isOpen = FALSE
  /\ toggleEffectPending = FALSE /\ mousedownListeners = 0

\* the catalog view, either variant, under a fresh theme store
Init ==
  /\ variant \in {"A", "B"}
  /\ CatalogInit
  /\ stored = "null" /\ osDark = FALSE
  /\ ThemeProviderInit

\* ===================================================== both variants
\* onChange of the search input
setSearchTerm(value) ==
  /\ ~effectPending
  /\ value # searchTerm
  /\ searchTerm' = value
  /\ UNCHANGED <<variant, page, totalPages, effectPending, trigger, inflight,
                 lastReq, panelA, panelB, history, themeVars>>

\* handlePageChange that also clears the search input
handlePageChangeClearsSearch(newPage) ==
  /\ CanFetch(1)
  /\ page' = newPage
  /\ searchTerm' = ""
  /\ effectPending' = TRUE
  /\ trigger' = Trigger("page", "", 0)
  /\ UNCHANGED <<variant, totalPages, inflight, lastReq,
                 panelA, panelB, history, themeVars>>

\* handlePageChange; the render that follows schedules useEffect([page])
handlePageChange(newPage) ==
  /\ CanFetch(1)
  /\ page' = newPage
  /\ effectPending' = TRUE
  /\ trigger' = Trigger("page", searchTerm, 0)
  /\ UNCHANGED <<variant, searchTerm, totalPages, inflight, lastReq,
                 panelA, panelB, history, themeVars>>

\* ============================================================= variant A
\* the pagination block is rendered
ShowPaginationA == totalPages > 1

\* the 'no-movies' blocks of the two panels are rendered
ShowNoMoviesDbA == ~dbLoading /\ Len(dbMovies) = 0 /\ ~Truthy(dbError)
ShowNoMoviesImdbA == ~imdbLoading /\ Len(imdbMovies) = 0 /\ ~Truthy(imdbError)

\* fetchMovies up to the two awaits: both panels enter Loading and both
\* requests are sent.  What follows either await reads nothing of the
\* closure, so the awaits of A carry no searchQuery.
fetchMoviesA(searchQuery, pageNum) ==
  /\ CanFetch(1)
  /\ inflight' = Issue(Issue(inflight, "db", "", {"db"}), "imdb", "", {"imdb"})
  /\ \E query \in ImdbQueries(searchQuery) :
       lastReq' = [db |-> DbParams(searchQuery, pageNum), imdb |-> query]
  /\ dbLoading' = TRUE /\ imdbLoading' = TRUE
  /\ UNCHANGED <<dbMovies, imdbMovies, dbError, imdbError>>

\* fetchFromDBResolved discarding a response that raced another fetch
fetchFromDBResolvedDropRaced(r, results, count) ==
  /\ dbMovies' = IF r.c THEN dbMovies ELSE results
  /\ totalPages' = IF r.c THEN totalPages ELSE PageCount(count)
  /\ dbError' = IF r.c THEN dbError ELSE ""
  /\ dbLoading' = FALSE
  /\ UNCHANGED panelImdbA

\* fetchFromDB after movieService.getMovies resolved
fetchFromDBResolved(r, results, count) ==
  /\ dbMovies' = results
  /\ totalPages' = PageCount(count)
  /\ dbError' = ""
  /\ dbLoading' = FALSE
  /\ UNCHANGED panelImdbA

\* fetchFromDBRejected with one error state shared by the two panels
fetchFromDBRejectedShared(r) ==
  /\ dbError' = DbFailedA
  /\ imdbError' = DbFailedA
  /\ dbMovies' = <<>>
  /\ dbLoading' = FALSE
  /\ UNCHANGED <<totalPages, imdbMovies, imdbLoading>>

\* fetchFromDBRejected without setDbMovies([])
fetchFromDBRejectedKeepList(r) ==
  /\ dbError' = DbFailedA
  /\ dbLoading' = FALSE
  /\ UNCHANGED <<dbMovies, totalPages, panelImdbA>>

\* fetchFromDB after movieService.getMovies rejected
fetchFromDBRejected(r) ==
  /\ dbError' = DbFailedA
  /\ dbMovies' = <<>>
  /\ dbLoading' = FALSE
  /\ UNCHANGED <<totalPages, panelImdbA>>

\* fetchFromIMDB after imdbService.searchMovies resolved
fetchFromIMDBResolved(r, shape, results) ==
  /\ imdbMovies' = IF shape = "list" THEN results ELSE <<>>
  /\ imdbError' = ""
  /\ imdbLoading' = FALSE
  /\ UNCHANGED <<totalPages, panelDbA>>

\* fetchFromIMDB after imdbService.searchMovies rejected
fetchFromIMDBRejected(r) ==
  /\ imdbError' = ImdbFailedA
  /\ imdbMovies' = <<>>
  /\ imdbLoading' = FALSE
  /\ UNCHANGED <<totalPages, panelDbA>>

useEffectA ==
  /\ variant = "A" /\ effectPending
  /\ fetchMoviesA(searchTerm, page)
  /\ effectPending' = FALSE
  /\ trigger' = NoTrigger
  /\ UNCHANGED <<variant, searchTerm, page, totalPages, panelB, history, themeVars>>

handleSearchA ==
  /\ variant = "A" /\ ~effectPending
  /\ CanFetch(IF page # 1 THEN 2 ELSE 1)
  /\ page' = 1
  /\ effectPending' = (page # 1)
  /\ trigger' = IF page # 1 THEN Trigger("submit", searchTerm, 1) ELSE NoTrigger
  /\ fetchMoviesA(searchTerm, 1)
  /\ UNCHANGED <<variant, searchTerm, totalPages, panelB, history, themeVars>>

PreviousA ==
  /\ variant = "A" /\ ~effectPending
  /\ ShowPaginationA /\ page # 1
  /\ handlePageChange(page - 1)

NextPageA ==
  /\ variant = "A" /\ ~effectPending
  /\ ShowPaginationA /\ page # totalPages
  /\ page < MaxPage
  /\ handlePageChange(page + 1)

DbResolvesA ==
  /\ variant = "A" /\ ~effectPending
  /\ \E r \in Outstanding("db"), results \in ResultLists, count \in Counts :
       /\ Len(results) <= count
       /\ fetchFromDBResolved(r, results, count)
       /\ inflight' = Remove(r)
       /\ lastResp' = [lastResp EXCEPT !.db = RespA(r, "ok", results)]
  /\ UNCHANGED <<variant, searchTerm, page, effectPending, trigger, lastReq,
                 panelB, themeVars>>

DbRejectsA ==
  /\ variant = "A" /\ ~effectPending
  /\ \E r \in Outstanding("db") :
       /\ fetchFromDBRejected(r)
       /\ inflight' = Remove(r)
       /\ lastResp' = [lastResp EXCEPT !.db = RespA(r, "fail", <<>>)]
  /\ UNCHANGED <<variant, searchTerm, page, effectPending, trigger, lastReq,
                 panelB, themeVars>>

ImdbResolvesA ==
  /\ variant = "A" /\ ~effectPending
  /\ \E r \in Outstanding("imdb"), shape \in ImdbShapes, results \in ResultLists :
       /\ shape # "list" => results = <<>>
       /\ fetchFromIMDBResolved(r, shape, results)
       /\ inflight' = Remove(r)
       /\ lastResp' = [lastResp EXCEPT !.imdb = RespA(r, shape, results)]
  /\ UNCHANGED <<variant, searchTerm, page, effectPending, trigger, lastReq,
                 panelB, themeVars>>

ImdbRejectsA ==
  /\ variant = "A" /\ ~effectPending
  /\ \E r \in Outstanding("imdb") :
       /\ fetchFromIMDBRejected(r)
       /\ inflight' = Remove(r)
       /\ lastResp' = [lastResp EXCEPT !.imdb = RespA(r, "fail", <<>>)]
  /\ UNCHANGED <<variant, searchTerm, page, effectPending, trigger, lastReq,
                 panelB, themeVars>>

\* ============================================================= variant B
ShowBanner == searchSource = "imdb"
ShowPaginationB == totalPages > 1 /\ searchSource = "db"

\* the 'no-movies' block and the 'error-message' block are rendered
ShowNoMoviesB == ~loading /\ Len(movies) = 0
ShowErrorB == Truthy(error)

\* fetchMovies up to the first await
fetchMoviesB(searchQuery, pageNum) ==
  /\ CanFetch(1)
  /\ loading' = TRUE
  /\ searchSource' = "null"
  /\ inflight' = Issue(inflight, "db", searchQuery, {"db", "imdb"})
  /\ lastReq' = [lastReq EXCEPT !.db = DbParams(searchQuery, pageNum)]
  /\ UNCHANGED <<movies, error>>

\* getMoviesResolved falling back to IMDB on any empty DB list
getMoviesResolvedAlwaysFallback(r, results, count) ==
  IF Len(results) = 0
  THEN /\ inflight' = Remove(r) (+)
                      SetToBag({[Await("imdb", r.q, r.c) EXCEPT !.count = count]})
       /\ lastReq' = [lastReq EXCEPT !.imdb = r.q]
       /\ UNCHANGED <<totalPages, panelB>>
  ELSE /\ movies' = results
       /\ searchSource' = "db"
       /\ totalPages' = PageCount(count)
       /\ error' = ""
       /\ loading' = FALSE
       /\ inflight' = Remove(r)
       /\ UNCHANGED lastReq

\* fetchMovies after movieService.getMovies resolved
getMoviesResolved(r, results, count) ==
  IF Truthy(r.q) /\ Len(results) = 0
  THEN \* second await: movieService.searchIMDB(searchQuery)
       /\ inflight' = Remove(r) (+)
                      SetToBag({[Await("imdb", r.q, r.c) EXCEPT !.count = count]})
       /\ lastReq' = [lastReq EXCEPT !.imdb = r.q]
       /\ UNCHANGED <<totalPages, panelB>>
  ELSE /\ movies' = results
       /\ searchSource' = "db"
       /\ totalPages' = PageCount(count)
       /\ error' = ""
       /\ loading' = FALSE
       /\ inflight' = Remove(r)
       /\ UNCHANGED lastReq

\* getMoviesRejected without the finally block
getMoviesRejectedNoFinally(r) ==
  /\ error' = FailedB
  /\ inflight' = Remove(r)
  /\ UNCHANGED <<totalPages, movies, loading, searchSource, lastReq>>

\* fetchMovies after movieService.getMovies rejected
getMoviesRejected(r) ==
  /\ error' = FailedB
  /\ loading' = FALSE
  /\ inflight' = Remove(r)
  /\ UNCHANGED <<totalPages, movies, searchSource, lastReq>>

\* searchIMDBResolved without setTotalPages(1)
searchIMDBResolvedKeepPages(r, shape, results) ==
  /\ IF shape = "list" /\ Len(results) > 0
     THEN /\ movies' = results
          /\ searchSource' = "imdb"
     ELSE /\ movies' = <<>>
          /\ searchSource' = "db"
  /\ UNCHANGED totalPages
  /\ error' = ""
  /\ loading' = FALSE
  /\ inflight' = Remove(r)
  /\ UNCHANGED lastReq

\* fetchMovies after movieService.searchIMDB resolved
searchIMDBResolved(r, shape, results) ==
  /\ IF shape = "list" /\ Len(results) > 0
     THEN /\ movies' = results
          /\ searchSource' = "imdb"
          /\ totalPages' = 1
     ELSE /\ movies' = <<>>
          /\ searchSource' = "db"
          /\ UNCHANGED totalPages
  /\ error' = ""
  /\ loading' = FALSE
  /\ inflight' = Remove(r)
  /\ UNCHANGED lastReq

\* searchIMDBRejected surfacing the failure to the user
searchIMDBRejectedShown(r) ==
  /\ movies' = <<>>
  /\ searchSource' = "db"
  /\ error' = FailedB
  /\ loading' = FALSE
  /\ inflight' = Remove(r)
  /\ UNCHANGED <<totalPages, lastReq>>

\* fetchMovies after movieService.searchIMDB rejected
searchIMDBRejected(r) ==
  /\ movies' = <<>>
  /\ searchSource' = "db"
  /\ error' = ""
  /\ loading' = FALSE
  /\ inflight' = Remove(r)
  /\ UNCHANGED <<totalPages, lastReq>>

useEffectB ==
  /\ variant = "B" /\ effectPending
  /\ fetchMoviesB(searchTerm, page)
  /\ effectPending' = FALSE
  /\ trigger' = NoTrigger
  /\ UNCHANGED <<variant, searchTerm, page, totalPages, panelA, history, themeVars>>

\* handleSearch without setPage(1)
handleSearchBKeepPage ==
  /\ variant = "B" /\ ~effectPending
  /\ CanFetch(1)
  /\ effectPending' = FALSE
  /\ trigger' = NoTrigger
  /\ fetchMoviesB(searchTerm, 1)
  /\ UNCHANGED <<variant, searchTerm, page, totalPages, panelA, history, themeVars>>

handleSearchB ==
  /\ variant = "B" /\ ~effectPending
  /\ CanFetch(IF page # 1 THEN 2 ELSE 1)
  /\ page' = 1
  /\ effectPending' = (page # 1)
  /\ trigger' = IF page # 1 THEN Trigger("submit", searchTerm, 1) ELSE NoTrigger
  /\ fetchMoviesB(searchTerm, 1)
  /\ UNCHANGED <<variant, searchTerm, totalPages, panelA, history, themeVars>>

PreviousB ==
  /\ variant = "B" /\ ~effectPending
  /\ ShowPaginationB /\ page # 1
  /\ handlePageChange(page - 1)

NextPageB ==
  /\ variant = "B" /\ ~effectPending
  /\ ShowPaginationB /\ page # totalPages
  /\ page < MaxPage
  /\ handlePageChange(page + 1)

DbResolvesB ==
  /\ variant = "B" /\ ~effectPending
  /\ \E r \in Outstanding("db"), results \in ResultLists, count \in Counts :
       /\ Len(results) <= count
       /\ getMoviesResolved(r, results, count)
       /\ lastResp' = [view |-> Resp(r, "ok", results, count)]
  /\ UNCHANGED <<variant, searchTerm, page, effectPending, trigger, panelA,
                 themeVars>>

DbRejectsB ==
  /\ variant = "B" /\ ~effectPending
  /\ \E r \in Outstanding("db") :
       /\ getMoviesRejected(r)
       /\ lastResp' = [view |-> Resp(r, "fail", <<>>, r.count)]
  /\ UNCHANGED <<variant, searchTerm, page, effectPending, trigger, panelA,
                 themeVars>>

ImdbResolvesB ==
  /\ variant = "B" /\ ~effectPending
  /\ \E r \in Outstanding("imdb"), shape \in ImdbShapes, results \in ResultLists :
       /\ shape # "list" => results = <<>>
       /\ searchIMDBResolved(r, shape, results)
       /\ lastResp' = [view |-> Resp(r, shape, results, r.count)]
  /\ UNCHANGED <<variant, searchTerm, page, effectPending, trigger, panelA,
                 themeVars>>

ImdbRejectsB ==
  /\ variant = "B" /\ ~effectPending
  /\ \E r \in Outstanding("imdb") :
       /\ searchIMDBRejected(r)
       /\ lastResp' = [view |-> Resp(r, "fail", <<>>, r.count)]
  /\ UNCHANGED <<variant, searchTerm, page, effectPending, trigger, panelA,
                 themeVars>>

\* ========================================================= ThemeProvider
Themes == {"dark", "light", "system"}

\* mediaQuery.matches ? 'dark' : 'light'
OsTheme(matches) == IF matches THEN "dark" ELSE "light"

\* identities free for a newly created handleChange function
FreshIds ==
  {i \in 1..MaxHandlers : i \notin {l.id : l \in listeners} \cup {handler.id}}

\* a cleanup that removes nothing
removeEventListenerMissing(registered, h) == registered

\* the effect's cleanup: mediaQuery.removeEventListener('change', handleChange)
removeEventListener(registered, h) == registered \ {h}

\* mediaQuery.addEventListener('change', handleChange)
addEventListener(registered, h) == registered \cup {h}

\* handleChange that never applies the OS theme
handleChangeIgnored(closureTheme, matches, attr) == attr

\* handleChange(e) of one effect run, whose closure holds closureTheme;
\* the value of data-theme after it, given the value before
handleChange(closureTheme, matches, attr) ==
  IF closureTheme = "system" THEN OsTheme(matches) ELSE attr

\* the body of useEffect([theme]) with a new handleChange h;
\* gives the listeners and data-theme after it
effectBody(registered, h) ==
  IF theme = "system"
  THEN [listeners |-> addEventListener(registered, h), attr |-> OsTheme(osDark)]
  ELSE [listeners |-> registered, attr |-> theme]

\* React runs the previous effect's cleanup, then the effect
themeEffect ==
  /\ mounted /\ themeEffectPending /\ ~toggleEffectPending
  /\ \E i \in FreshIds :
       /\ \A j \in FreshIds : i <= j
       /\ LET h == [id |-> i, theme |-> theme]
              cleaned == IF handler = NoHandler THEN listeners
                         ELSE removeEventListener(listeners, handler)
              after == effectBody(cleaned, h)
          IN /\ listeners' = after.listeners
             /\ dataTheme' = after.attr
             /\ handler' = h
  /\ themeEffectPending' = FALSE
  /\ UNCHANGED <<theme, stored, mounted, osDark, toggleVars, catalogVars>>

\* changeTheme without localStorage.setItem
changeThemeUnsaved(newTheme) ==
  /\ theme' = newTheme
  /\ themeEffectPending' = (newTheme # theme)
  /\ UNCHANGED <<stored, mounted, dataTheme, osDark, listeners, handler, catalogVars>>

changeTheme(newTheme) ==
  /\ theme' = newTheme
  /\ stored' = newTheme
  /\ themeEffectPending' = (newTheme # theme)
  /\ UNCHANGED <<mounted, dataTheme, osDark, listeners, handler, catalogVars>>

\* a consumer of the context other than ThemeToggle calls changeTheme
setPreference(newTheme) ==
  /\ mounted /\ ~themeEffectPending /\ ~toggleEffectPending
  /\ changeTheme(newTheme)
  /\ UNCHANGED toggleVars

\* the OS colour scheme flips: every registered listener is called
osChange ==
  /\ osDark' = ~osDark
  /\ LET written == {handleChange(l.theme, osDark', dataTheme) : l \in listeners}
                      \ {dataTheme}
     IN dataTheme' = IF written = {} THEN dataTheme
                     ELSE CHOOSE a \in written : TRUE
  /\ UNCHANGED <<theme, stored, mounted, themeEffectPending, listeners, handler,
                 toggleVars, catalogVars>>

\* ThemeProvider unmounts: React runs the effect's cleanup
\* cleanup of ThemeToggle's effect:
\* document.removeEventListener('mousedown', handleClickOutside)
removeMousedown(n) == IF n > 0 THEN n - 1 ELSE 0

\* ThemeProvider unmounts, and ThemeToggle under it: React runs the cleanups
unmount ==
  /\ mounted /\ ~themeEffectPending /\ ~toggleEffectPending
  /\ listeners' = removeEventListener(listeners, handler)
  /\ mounted' = FALSE
  /\ toggleMounted' = FALSE
  /\ mousedownListeners' = IF toggleMounted THEN removeMousedown(mousedownListeners)
                           ELSE mousedownListeners
  /\ UNCHANGED <<theme, stored, themeEffectPending, dataTheme, osDark, handler,
                 isOpen, toggleEffectPending, catalogVars>>

\* the page is loaded again: new document, new media query, same storage
reload ==
  /\ theme' = InitialTheme(stored)
  /\ mounted' = TRUE /\ themeEffectPending' = TRUE
  /\ dataTheme' = "null"
  /\ listeners' = {} /\ handler' = NoHandler
  /\ toggleMounted' = FALSE /\ isOpen' = FALSE
  /\ toggleEffectPending' = FALSE /\ mousedownListeners' = 0
  /\ UNCHANGED <<stored, osDark, catalogVars>>

\* =========================================================== ThemeToggle
\* ThemeToggle is rendered under the provider: useState(false), and the
\* first render schedules useEffect([])
mountToggle ==
  /\ mounted /\ ~themeEffectPending /\ ~toggleMounted
  /\ toggleMounted' = TRUE
  /\ isOpen' = FALSE
  /\ toggleEffectPending' = TRUE
  /\ UNCHANGED <<mousedownListeners, providerVars, catalogVars>>

\* useEffect([]): document.addEventListener('mousedown', handleClickOutside)
toggleEffect ==
  /\ toggleMounted /\ toggleEffectPending
  /\ mousedownListeners' = mousedownListeners + 1
  /\ toggleEffectPending' = FALSE
  /\ UNCHANGED <<toggleMounted, isOpen, providerVars, catalogVars>>

\* ThemeToggle alone unmounts
unmountToggle ==
  /\ toggleMounted /\ ~toggleEffectPending /\ ~themeEffectPending
  /\ toggleMounted' = FALSE
  /\ mousedownListeners' = removeMousedown(mousedownListeners)
  /\ UNCHANGED <<isOpen, toggleEffectPending, providerVars, catalogVars>>

\* onClick of the trigger button
clickTrigger ==
  /\ toggleMounted /\ ~toggleEffectPending /\ ~themeEffectPending
  /\ isOpen' = ~isOpen
  /\ UNCHANGED <<toggleMounted, toggleEffectPending, mousedownListeners,
                 providerVars, catalogVars>>

\* onClick of an option of the open dropdown
handleThemeChange(newTheme) ==
  /\ toggleMounted /\ ~toggleEffectPending /\ ~themeEffectPending
  /\ isOpen
  /\ changeTheme(newTheme)
  /\ isOpen' = FALSE
  /\ UNCHANGED <<toggleMounted, toggleEffectPending, mousedownListeners>>

\* a mousedown outside the dropdown reaches handleClickOutside
handleClickOutside ==
  /\ toggleMounted /\ ~toggleEffectPending /\ ~themeEffectPending
  /\ mousedownListeners > 0
  /\ isOpen' = FALSE
  /\ UNCHANGED <<toggleMounted, toggleEffectPending, mousedownListeners,
                 providerVars, catalogVars>>

\* ------------------------------------------------------- specification
Next ==
  \/ \E value \in SearchTerms : setSearchTerm(value)
  \/ useEffectA
  \/ handleSearchA
  \/ PreviousA
  \/ NextPageA
  \/ DbResolvesA
  \/ DbRejectsA
  \/ ImdbResolvesA
  \/ ImdbRejectsA
  \/ useEffectB
  \/ handleSearchB
  \/ PreviousB
  \/ NextPageB
  \/ DbResolvesB
  \/ DbRejectsB
  \/ ImdbResolvesB
  \/ ImdbRejectsB

Spec == Init /\ [][Next]_vars

\* the steps the user takes, the effect React runs, the responses of the APIs
UserStep ==
  \/ \E value \in SearchTerms : setSearchTerm(value)
  \/ handleSearchA \/ PreviousA \/ NextPageA
  \/ handleSearchB \/ PreviousB \/ NextPageB
EffectStep == useEffectA \/ useEffectB
ResponseStep ==
  \/ DbResolvesA \/ DbRejectsA \/ ImdbResolvesA \/ ImdbRejectsA
  \/ DbResolvesB \/ DbRejectsB \/ ImdbResolvesB \/ ImdbRejectsB

\* awaits that returned in a step, and requests sent in it, per API
Returned(api) == NumIn(inflight', {api}) < NumIn(inflight, {api})
Sent(api) == NumIn(inflight', {api}) > NumIn(inflight, {api})

\* the same steps told by what they change.  A step of Next is a
\* ResponseStep exactly if an await returns in it, and a UserStep exactly if,
\* with no effect scheduled, it changes the search text, schedules the
\* effect or sends a DB request; a ResponseStep is enabled exactly when an
\* await is outstanding and no effect is scheduled.
Responded == Returned("db") \/ Returned("imdb")
CanRespond == inflight # EmptyBag /\ ~effectPending
UserActed ==
  ~effectPending /\ (searchTerm' # searchTerm \/ effectPending' \/ Sent("db"))

\* the catalog view when React runs every scheduled effect, every request
\* is eventually answered (resolved or rejected) and the user eventually
\* stops.  The second fairness condition is WF_vars(ResponseStep) written
\* out with CanRespond for ENABLED <<ResponseStep>>_vars.
LiveSpec ==
  /\ Init /\ [][Next]_vars
  /\ WF_vars(EffectStep)
  /\ <>[]CanRespond => []<><<Responded>>_vars
  /\ <>[][~UserActed]_vars

\* the theme store alone, from a browser with nothing stored
ThemeInit ==
  /\ variant = "A"
  /\ CatalogInit
  /\ stored = "null" /\ osDark \in BOOLEAN
  /\ ThemeProviderInit

ThemeNext ==
  \/ themeEffect
  \/ \E newTheme \in Themes : setPreference(newTheme)
  \/ osChange
  \/ unmount
  \/ reload
  \/ mountToggle
  \/ toggleEffect
  \/ unmountToggle
  \/ clickTrigger
  \/ \E newTheme \in Themes : handleThemeChange(newTheme)
  \/ handleClickOutside

ThemeSpec == ThemeInit /\ [][ThemeNext]_vars
\* ================================================================ claims
Quiescent == inflight = EmptyBag /\ ~effectPending

\* what fetchFromDB leaves in the DB panel <<list, error, loading>> of A
DbPanelAfter(resp) ==
  IF resp.kind = "ok" THEN <<resp.results, "", FALSE>>
  ELSE <<<<>>, DbFailedA, FALSE>>

\* what fetchFromIMDB leaves in the IMDB panel <<list, error, loading>> of A
ImdbPanelAfter(resp) ==
  IF resp.kind = "fail" THEN <<<<>>, ImdbFailedA, FALSE>>
  ELSE <<resp.results, "", FALSE>>

\* C1: variant A, failure isolation.  A step in which a DB fetch returns
\* (resolved or rejected) leaves the IMDB panel's list, error and loading
\* flag unchanged and leaves the DB panel in the state its own outcome
\* determines; a step in which an IMDB fetch returns leaves the DB panel's
\* list, error, loading flag and totalPages unchanged and leaves the IMDB
\* panel in the state its own outcome determines.  Holding of every step,
\* it holds for both completion orders.
C1_FailureIsolation ==
  [][variant = "A" =>
       /\ Returned("db") =>
            /\ UNCHANGED panelImdbA
            /\ <<dbMovies', dbError', dbLoading'>> = DbPanelAfter(lastResp'.db)
       /\ Returned("imdb") =>
            /\ UNCHANGED <<panelDbA, totalPages>>
            /\ <<imdbMovies', imdbError', imdbLoading'>> = ImdbPanelAfter(lastResp'.imdb)
    ]_vars

\* a DB failure and an IMDB success: DB error text next to a rendered IMDB
\* panel
C1_Witness ==
  /\ variant = "A" /\ inflight = EmptyBag
  /\ lastResp.db.kind = "fail" /\ lastResp.imdb.kind = "list"
  /\ dbError = DbFailedA /\ imdbError = ""
  /\ imdbMovies # <<>> /\ ~imdbLoading /\ ~dbLoading

\* C2: variant B, fetch protocol.  An IMDB request is sent only by the step
\* in which the DB response of the same call arrives, and only if that
\* call's search text is non-empty and the DB list is empty.  When the DB
\* response arrives for a call whose search text is empty or with a
\* non-empty list, no IMDB request is sent, the call ends, the DB list is
\* displayed with provenance db and totalPages is the page count of the DB
\* total count.
C2_FallbackProtocol ==
  [][variant = "B" =>
       LET gone == {r \in BagToSet(inflight) :
                      CopiesIn(r, inflight) > CopiesIn(r, inflight')}
       IN /\ Sent("imdb") =>
               /\ Returned("db")
               /\ lastResp'.view.kind = "ok" /\ lastResp'.view.results = <<>>
               /\ \A r \in gone : r.api = "db" /\ Truthy(r.q) /\ lastReq'.imdb = r.q
          /\ ( /\ Returned("db") /\ lastResp'.view.kind = "ok"
               /\ \/ \E r \in gone : ~Truthy(r.q)
                  \/ lastResp'.view.results # <<>> ) =>
               /\ ~Sent("imdb")
               /\ NumIn(inflight', {"db", "imdb"}) = NumIn(inflight, {"db", "imdb"}) - 1
               /\ movies' = lastResp'.view.results
               /\ searchSource' = "db"
               /\ totalPages' = PageCount(lastResp'.view.count)
    ]_vars

\* the DB answered a search with an empty list and the IMDB request is out
C2_Witness ==
  /\ variant = "B"
  /\ NumOutstanding({"imdb"}) = 1 /\ NumOutstanding({"db"}) = 0
  /\ lastResp.view.api = "db" /\ lastResp.view.kind = "ok"
  /\ lastResp.view.results = <<>>
  /\ Truthy(lastReq.imdb)

\* C3: variant B, fallback success.  When no fetch is outstanding and the
\* last response to arrive was an IMDB response with a non-empty list, the
\* displayed list is that list, provenance is imdb, totalPages is 1, the
\* pagination block is not rendered, the IMDB banner is rendered, the error
\* text is empty and loading is false.
C3_FallbackSuccess ==
  ( /\ variant = "B" /\ Quiescent
    /\ lastResp.view.api = "imdb" /\ lastResp.view.kind = "list"
    /\ lastResp.view.results # <<>> ) =>
      /\ movies = lastResp.view.results
      /\ searchSource = "imdb"
      /\ totalPages = 1
      /\ ~ShowPaginationB
      /\ ShowBanner
      /\ error = ""
      /\ ~loading

\* a fallback that no other fetch overlapped delivered an IMDB list for the
\* search text
C3_Witness ==
  /\ variant = "B" /\ Quiescent
  /\ lastResp.view.api = "imdb" /\ lastResp.view.kind = "list" /\ ~lastResp.view.c
  /\ Truthy(lastReq.db.search) /\ lastReq.imdb = lastReq.db.search
  /\ movies # <<>> /\ searchSource = "imdb"

\* C4: variant B, fallback downgrade.  When no fetch is outstanding and the
\* last response to arrive was an IMDB failure, or an IMDB response with an
\* empty or missing list, the displayed list is empty, provenance is db, no
\* banner is rendered and the error text is empty.
C4_FallbackDowngrade ==
  ( /\ variant = "B" /\ Quiescent
    /\ lastResp.view.api = "imdb"
    /\ \/ lastResp.view.kind \in {"fail", "nolist", "nodata"}
       \/ lastResp.view.results = <<>> ) =>
      /\ movies = <<>>
      /\ searchSource = "db"
      /\ ~ShowBanner
      /\ error = ""

\* the DB answered a search with an empty list and the IMDB request that
\* followed was rejected
C4_Witness ==
  /\ variant = "B" /\ Quiescent
  /\ lastResp.view.api = "imdb" /\ lastResp.view.kind = "fail"
  /\ movies = <<>> /\ error = "" /\ ~loading

\* C5: totalPages >= 1 in every reachable state of either variant.
C5_TotalPagesAtLeastOne == totalPages >= 1

\* C6: every DB request sent asks for a page between 1 and the totalPages
\* the view holds when it is sent.
C6_NoOutOfRangeFetch ==
  [][Sent("db") =>
       /\ 1 <= lastReq'.db.page
       /\ lastReq'.db.page <= totalPages
    ]_vars
\* the theme the document should show
EffectiveTheme == IF theme = "system" THEN OsTheme(osDark) ELSE theme

\* C7: effective theme.  While ThemeProvider is mounted and its effect is
\* not pending, data-theme equals the preference when the preference is
\* dark or light and equals the current OS colour scheme when the
\* preference is system; so an OS flip under system moves data-theme and an
\* OS flip under dark or light leaves it.
C7_EffectiveTheme ==
  (mounted /\ ~themeEffectPending) => dataTheme = EffectiveTheme

\* under system, with the listener registered and the OS scheme light,
\* data-theme is light
C7_Witness ==
  /\ mounted /\ ~themeEffectPending
  /\ theme = "system" /\ listeners # {}
  /\ osDark = FALSE /\ dataTheme = "light"

\* C8: persistence round trip.  In every state the in-memory preference is
\* what initialising from storage yields: the stored value when there is
\* one, dark when there is none; so the stored value equals the preference
\* after every changeTheme, and a reload after changeTheme(p) starts with p.
C8_PersistenceRoundTrip ==
  /\ stored = "null" => theme = "dark"
  /\ stored # "null" => (stored \in Themes /\ theme = stored)

\* the page was loaded again after changeTheme('light'): storage was empty
\* when the run began
C8_Witness ==
  /\ mounted /\ themeEffectPending /\ handler = NoHandler
  /\ dataTheme = "null"
  /\ stored = "light" /\ theme = "light"

\* C9: subscription lifecycle.  The number of 'change' listeners on the
\* media query is 1 when ThemeProvider is mounted and the preference its
\* last effect run applied is system, and 0 otherwise (applied preference
\* dark or light, or unmounted); it is never 2 or more.  Once the pending
\* effect has run the applied preference is the preference.
C9_SubscriptionLifecycle ==
  /\ Cardinality(listeners) = IF mounted /\ handler.theme = "system" THEN 1 ELSE 0
  /\ (mounted /\ ~themeEffectPending) => handler.theme = theme

\* ThemeProvider was unmounted while subscribed under system
C9_Witness ==
  /\ ~mounted /\ handler.theme = "system" /\ theme = "system"
  /\ listeners = {}

\* the response that arrived last in variant B
LastB == lastResp.view

\* <<list, error, provenance>> a completing fetchMovies call of B writes
WrittenB ==
  IF LastB.api = "db" THEN <<LastB.results, "", "db">>
  ELSE IF LastB.kind = "list" /\ LastB.results # <<>>
       THEN <<LastB.results, "", "imdb">>
       ELSE <<<<>>, "", "db">>

\* list and error of the two panels of A are those of their last responses
LastWinsA ==
  /\ <<dbMovies, dbError>> = <<DbPanelAfter(lastResp.db)[1], DbPanelAfter(lastResp.db)[2]>>
  /\ <<imdbMovies, imdbError>> =
       <<ImdbPanelAfter(lastResp.imdb)[1], ImdbPanelAfter(lastResp.imdb)[2]>>

\* C10 as stated: once no fetch is outstanding, the displayed list, error
\* text and (variant B) provenance are those of the fetch whose completion
\* arrived last; a fetch of B that fails has provenance null, set when it
\* started, and the failure text.
C10_LastCompletionWinsAll ==
  Quiescent =>
    /\ variant = "A" => LastWinsA
    /\ variant = "B" =>
         IF LastB.kind = "fail" /\ LastB.api = "db"
         THEN error = FailedB /\ searchSource = "null"
         ELSE <<movies, error, searchSource>> = WrittenB

\* C10 amended: as above, except that a DB failure arriving last in variant
\* B determines the error text only.
C10_LastCompletionWins ==
  Quiescent =>
    /\ variant = "A" => LastWinsA
    /\ variant = "B" =>
         IF LastB.kind = "fail" /\ LastB.api = "db"
         THEN error = FailedB
         ELSE <<movies, error, searchSource>> = WrittenB

\* in variant B two fetches were outstanding together; the one to return
\* last was rejected by the DB and left the failure text next to the list
\* and the provenance the other one had written
C10_Witness ==
  /\ variant = "B" /\ Quiescent
  /\ LastB.api = "db" /\ LastB.kind = "fail" /\ LastB.c
  /\ error = FailedB /\ searchSource = "db" /\ movies # <<>>

\* a step of handleSearch: the only handler that sends a DB request itself
Submitted == ~effectPending /\ Sent("db")

\* a step of useEffect([page]) scheduled by the given kind of trigger
EffectRunFor(by) == effectPending /\ ~effectPending' /\ trigger.by = by

\* C11: search submit resets the page.  In both variants a search submit,
\* from any page, search text and outstanding fetches, leaves page = 1 and
\* sends a DB request for page 1 with the search text of that moment (in A
\* also the IMDB request for that text); the effect run the submit schedules
\* finds page = 1 and sends a request for page 1 with the search text held
\* at submit time.
C11_SubmitResetsPage ==
  [][/\ Submitted =>
          /\ page' = 1 /\ UNCHANGED searchTerm
          /\ lastReq'.db = DbParams(searchTerm, 1)
          /\ variant = "A" => Sent("imdb") /\ lastReq'.imdb \in ImdbQueries(searchTerm)
          /\ effectPending' => trigger' = Trigger("submit", searchTerm, 1)
     /\ EffectRunFor("submit") =>
          /\ page = 1 /\ UNCHANGED <<page, searchTerm>>
          /\ Sent("db") /\ lastReq'.db = DbParams(trigger.term, 1)
          /\ variant = "A" => Sent("imdb") /\ lastReq'.imdb \in ImdbQueries(trigger.term)
    ]_vars

\* a search for a text was submitted from a later page while nothing was
\* outstanding: page is 1, the request for page 1 is out and the effect is
\* scheduled
C11_Witness ==
  /\ effectPending /\ trigger = Trigger("submit", "zzzqqq", 1)
  /\ page = 1 /\ lastReq.db = DbParams("zzzqqq", 1)
  /\ NumOutstanding({"db"}) = 1

\* C12: variant A, external panel error handling.  A step in which an IMDB
\* fetch returns rejected, or resolved without data or without a result
\* list under data, leaves the IMDB panel with an empty list, a non-empty
\* error text and loading false.
C12_ExternalErrorHandling ==
  [][( /\ variant = "A" /\ Returned("imdb")
       /\ lastResp'.imdb.kind \in {"fail", "nolist", "nodata"} ) =>
         /\ imdbMovies' = <<>>
         /\ Truthy(imdbError')
         /\ ~imdbLoading'
    ]_vars

\* C13: theme dropdown outside-click listener.  In every reachable state of
\* ThemeToggle a mousedown listener is registered on the document only if
\* the widget is mounted with its dropdown open: none while the dropdown is
\* closed, none after unmount.
C13_ListenerOnlyWhileOpen ==
  mousedownListeners > 0 => (toggleMounted /\ isOpen)

\* a panel in a genuinely empty result state
GenuinelyEmpty(isLoading, list, errorText) ==
  ~isLoading /\ list = <<>> /\ errorText = ""

\* C14: empty-state message.  In every reachable state of either variant a
\* panel's 'no results' message is rendered exactly when the panel is not
\* loading, its list is empty and its error text is empty; it is never
\* rendered together with an error message.
C14_EmptyStateMessage ==
  /\ variant = "A" =>
       /\ ShowNoMoviesDbA <=> GenuinelyEmpty(dbLoading, dbMovies, dbError)
       /\ ShowNoMoviesImdbA <=> GenuinelyEmpty(imdbLoading, imdbMovies, imdbError)
       /\ ~(ShowNoMoviesDbA /\ Truthy(dbError))
       /\ ~(ShowNoMoviesImdbA /\ Truthy(imdbError))
  /\ variant = "B" =>
       /\ ShowNoMoviesB <=> GenuinelyEmpty(loading, movies, error)
       /\ ~(ShowNoMoviesB /\ ShowErrorB)

\* C15: variant A, DB panel failure effect.  A step in which a DB fetch
\* returns rejected sets the DB panel's error text to the database failure
\* message, empties its list and clears its loading flag, and leaves the
\* page number and the search text unchanged.
C15_DbFailureEffect ==
  [][( /\ variant = "A" /\ Returned("db")
       /\ lastResp'.db.kind = "fail" ) =>
         /\ dbError' = DbFailedA
         /\ dbMovies' = <<>>
         /\ dbLoading' = FALSE
         /\ UNCHANGED <<page, searchTerm>>
    ]_vars

\* on page 2 of a search the DB fetch failed: failure text, empty list, not
\* loading, page and search text still there for a retry
C15_Witness ==
  /\ variant = "A" /\ NumOutstanding({"db"}) = 0 /\ ~effectPending
  /\ lastResp.db.kind = "fail"
  /\ dbError = DbFailedA /\ dbMovies = <<>> /\ ~dbLoading
  /\ page = 2 /\ searchTerm = "zzzqqq" /\ lastReq.db = DbParams("zzzqqq", 2)

\* a step of handlePageChange: a click on Previous or Next
PageClicked == ~effectPending /\ effectPending' /\ trigger'.by = "page"

\* the pagination block of the mounted variant is rendered
ShowPagination == IF variant = "A" THEN ShowPaginationA ELSE ShowPaginationB

\* C16: page change frame.  In both variants a click on a pagination
\* control happens only with the block rendered and the control enabled
\* (Previous when page is not 1, Next when page is not totalPages); it moves
\* page by -1 or +1 and leaves the search text, totalPages, the panels and
\* the outstanding fetches as they are; the effect run it schedules sends a
\* DB request for the new page with the current search text.  page never
\* goes below 1.
C16_PageChangeFrame ==
  [][/\ PageClicked =>
          /\ ShowPagination
          /\ \/ page # 1 /\ page' = page - 1
             \/ page # totalPages /\ page' = page + 1
          /\ page' >= 1
          /\ UNCHANGED <<searchTerm, totalPages, inflight, lastReq, panelA, panelB>>
     /\ EffectRunFor("page") =>
          /\ UNCHANGED <<page, searchTerm>>
          /\ trigger.term = searchTerm
          /\ Sent("db") /\ lastReq'.db = DbParams(searchTerm, page)
    ]_vars

\* Next was clicked on page 1 of a search and the effect has sent the
\* request for page 2 with the search text
C16_Witness ==
  /\ ~effectPending /\ page = 2 /\ searchTerm = "zzzqqq"
  /\ lastReq.db = DbParams("zzzqqq", 2)
  /\ NumOutstanding({"db"}) = 1

\* C17: loading flag tracks outstanding fetches.  In both variants, once the
\* mount fetch has been issued, a panel's loading flag is true exactly when
\* at least one fetch of that panel is outstanding.
C17_LoadingTracksOutstanding ==
  lastReq.db # NoReq =>
    /\ variant = "A" =>
         /\ dbLoading <=> NumOutstanding({"db"}) > 0
         /\ imdbLoading <=> NumOutstanding({"imdb"}) > 0
    /\ variant = "B" =>
         loading <=> NumOutstanding({"db", "imdb"}) > 0

\* C18: one fetch per user action.  In both variants every step that sends
\* a DB request sends exactly one (in A together with exactly one IMDB
\* request), and a user action is answered by one such step only: a handler
\* that has sent the request itself schedules no effect run, and an effect
\* run that sends one was scheduled by an action that had sent none.
C18_OneFetchPerAction ==
  [][Sent("db") =>
       /\ NumIn(inflight', {"db"}) = NumIn(inflight, {"db"}) + 1
       /\ variant = "A" => NumIn(inflight', {"imdb"}) = NumIn(inflight, {"imdb"}) + 1
       /\ ~effectPending => ~effectPending'
       /\ effectPending => trigger.sent = 0
    ]_vars

\* the fetchMovies call of B whose completion arrived last ended in its try
\* block with provenance db: a DB list was displayed, or the fallback gave
\* nothing
CompletedAsDb ==
  \/ LastB.api = "db" /\ LastB.kind = "ok"
  \/ LastB.api = "imdb" /\ ~(LastB.kind = "list" /\ LastB.results # <<>>)

\* C19: variant B, page count freshness.  When no fetch is outstanding and
\* the last fetch completed successfully with provenance db, totalPages is
\* the page count of the total count of that fetch's DB response: of the
\* count displayed with the DB list, and, after a search that found nothing
\* in the DB (total count 0) and nothing in IMDB, of 0, so that the
\* pagination block is not rendered.  For a total count of 0 both the 0 of
\* Math.ceil and the 1 of C5 are accepted.
C19_PageCountFreshness ==
  ( /\ variant = "B" /\ Quiescent
    /\ CompletedAsDb /\ searchSource = "db" /\ error = "" ) =>
      /\ LastB.api = "db" =>
           totalPages \in {PageCount(LastB.count)} \cup
                          (IF LastB.count = 0 THEN {1} ELSE {})
      /\ (LastB.api = "imdb" /\ LastB.count = 0) =>
           /\ totalPages \in {PageCount(0), 1}
           /\ ~ShowPaginationB

\* a panel of the mounted variant shows its loading indicator
Loading == IF variant = "A" THEN dbLoading \/ imdbLoading ELSE loading

\* C20: fetch termination.  When every request is eventually answered and
\* the user eventually stops, there comes a moment from which no fetch is
\* outstanding, so every fetchMovies call issued has reached its completion
\* step whatever path it took; and whenever no fetch is outstanding and no
\* effect is scheduled, no loading flag is set.
C20_FetchTermination ==
  /\ [](Quiescent => ~Loading)
  /\ <>[](Quiescent /\ ~Loading)

\* in variant B a search fell back to IMDB, the fallback failed, and the
\* view is at rest without loading
C20_Witness ==
  /\ variant = "B" /\ Quiescent /\ ~Loading
  /\ LastB.api = "imdb" /\ LastB.kind = "fail"
  /\ Truthy(lastReq.imdb) /\ searchSource = "db"
====
